---- MODULE Spec2Model ----
(***************************************************************************)
(* Model of the two chess puzzle scripts of the repository:                *)
(*   Chess_checkmate_withstalemate.py  (checkmate detection)               *)
(*   Chess_Capture_Game.py             (capture finder)                    *)
(*                                                                         *)
(* Texts (square labels such as 'e4') are sequences of one-character       *)
(* strings, so that parsing and formatting are computed, not assumed.      *)
(* Python's None is the empty sequence; a board cell holding 'White K' is  *)
(* the sequence of its words << "White", "K" >>.                           *)
(***************************************************************************)
EXTENDS Integers, Sequences, FiniteSets, TLC

VARIABLES
    mode,                  \* which script runs: "checkmate" or "capture"
    pc,                    \* position of main(): place_white, place_black, evaluate, done
    board,                 \* dict: square text -> None or the piece's words
    white_piece_type,      \* 'king' / 'pawn', None before placement
    white_piece_position,  \* text of the white piece's square
    black_pieces,          \* list of (piece, position)
    black_piece_counts,    \* place_black_pieces' per-kind counters
    result,                \* what the evaluation function returned
    diag,                  \* diagnostics printed by the evaluation function
    board_before,          \* snapshot of board taken when evaluation is called
    black_before,          \* snapshot of black_pieces taken at the same time
    probe                  \* arguments and result of a direct call of a helper

vars == << mode, pc, board, white_piece_type, white_piece_position, black_pieces,
           black_piece_counts, result, diag, board_before, black_before, probe >>

---------------------------------------------------------------------------
(* Bounds of the model.                                                    *)

\* longest black-piece list the placement flow is driven to
MaxBlack == 2
\* longest black-piece list handed to a direct call of an evaluation function
MaxDirect == 2
\* most occupied squares on a board handed to a direct call of attacks
MaxOccupied == 1
\* longest text handed to a direct call of parse_position
MaxTextLen == 3
\* iterations after which a stepped run of is_path_clear's loop is cut off
MaxWalk == 9

---------------------------------------------------------------------------
(* Python values.                                                          *)

None == << >>

Abs(n) == IF n < 0 THEN -n ELSE n

\* 'abcdefgh' and '12345678' of parse_position
ColLetters == << "a", "b", "c", "d", "e", "f", "g", "h" >>
RowDigits == << "1", "2", "3", "4", "5", "6", "7", "8" >>

\* the code points parse_position and the f-strings convert between
CodePoints ==
    [ c \in { "a", "b", "c", "d", "e", "f", "g", "h", "i", "j" } |->
        CASE c = "a" -> 97 [] c = "b" -> 98 [] c = "c" -> 99 [] c = "d" -> 100
          [] c = "e" -> 101 [] c = "f" -> 102 [] c = "g" -> 103 [] c = "h" -> 104
          [] c = "i" -> 105 [] c = "j" -> 106 ]

ord(c) == CodePoints[c]

\* chr(n); a code point outside the table is shown as "?"
chr(n) ==
    IF \E c \in DOMAIN CodePoints : CodePoints[c] = n
    THEN CHOOSE c \in DOMAIN CodePoints : CodePoints[c] = n
    ELSE "?"

DecimalDigits == << "0", "1", "2", "3", "4", "5", "6", "7", "8", "9" >>

\* int(row) for a one-character decimal digit
int(d) == (CHOOSE i \in 1..10 : DecimalDigits[i] = d) - 1

\* str(n) as an f-string prints an integer
RECURSIVE str(_)
str(n) ==
    IF n < 0 THEN << "-" >> \o str(-n)
    ELSE IF n < 10 THEN << DecimalDigits[n + 1] >>
    ELSE str(n \div 10) \o << DecimalDigits[(n % 10) + 1] >>

\* c in 'abcdefgh' for a one-character c
InText(c, text) == \E i \in 1..Len(text) : text[i] = c

---------------------------------------------------------------------------
(* Coordinate model.                                                       *)

\* f"{chr(x + ord('a'))}{y + 1}"
FormatSquare(x, y) == << chr(x + ord("a")) >> \o str(y + 1)

\* what a call that raises hands back (int(row) raises ValueError on a non-digit)
ValueError == << -1 >>

\* parse_position without the test of the row (mutant)
parse_position_norowcheck(position) ==
    IF Len(position) # 2 THEN None
    ELSE IF ~ InText(position[1], ColLetters) THEN None
    ELSE IF ~ InText(position[2], DecimalDigits) THEN ValueError
    ELSE << ord(position[1]) - ord("a"), int(position[2]) - 1 >>

\* parse_position: << x, y >>, or None for Python's (None, None)
parse_position(position) ==
    IF Len(position) # 2 THEN None
    ELSE LET col == position[1]
             row == position[2]
         IN  IF ~ InText(col, ColLetters) \/ ~ InText(row, RowDigits) THEN None
             ELSE IF ~ InText(row, DecimalDigits) THEN ValueError
             ELSE << ord(col) - ord("a"), int(row) - 1 >>

\* create_chessboard: the 64 keys col + row, every cell None
BoardKeys == { << ColLetters[c], RowDigits[r] >> : c \in 1..8, r \in 1..8 }

create_chessboard == [ k \in BoardKeys |-> None ]

\* board.get(pos)
Get(b, pos) == IF pos \in DOMAIN b THEN b[pos] ELSE None

---------------------------------------------------------------------------
(* Piece tables.                                                           *)

PieceKinds == { "king", "queen", "rook", "bishop", "knight", "pawn" }

\* chess_pieces of the checkmate script (abbreviations)
chess_pieces_abbr ==
    [ p \in PieceKinds |->
        CASE p = "king" -> "K" [] p = "queen" -> "Q" [] p = "rook" -> "R"
          [] p = "bishop" -> "B" [] p = "knight" -> "N" [] p = "pawn" -> "P" ]

\* chess_pieces of the capture script (full names)
chess_pieces_name ==
    [ p \in PieceKinds |->
        CASE p = "king" -> "King" [] p = "queen" -> "Queen" [] p = "rook" -> "Rook"
          [] p = "bishop" -> "Bishop" [] p = "knight" -> "Knight" [] p = "pawn" -> "Pawn" ]

\* the piece word a script writes on the board
PieceWord(m, p) == IF m = "checkmate" THEN chess_pieces_abbr[p] ELSE chess_pieces_name[p]

\* val.startswith('White') and 'Black' in val, for a non-None cell
StartsWithWhite(val) == Len(val) > 0 /\ val[1] = "White"
HasBlack(val) == \E i \in 1..Len(val) : val[i] = "Black"

---------------------------------------------------------------------------
(* Line of sight and attack predicate of determine_checkmate.              *)

\* the while loop of is_path_clear, from the current square on
RECURSIVE PathWalk(_, _, _, _, _, _, _)
PathWalk(b, current_x, current_y, x_end, y_end, step_x, step_y) ==
    IF ~ (current_x # x_end \/ current_y # y_end) THEN TRUE
    ELSE IF Get(b, FormatSquare(current_x, current_y)) # None THEN FALSE
    ELSE PathWalk(b, current_x + step_x, current_y + step_y, x_end, y_end, step_x, step_y)

Sign(from, to) == IF to > from THEN 1 ELSE IF to < from THEN -1 ELSE 0

\* is_path_clear that also inspects the end square (mutant)
is_path_clear_inclusive(b, x_start, y_start, x_end, y_end) ==
    /\ PathWalk(b, x_start + Sign(x_start, x_end), y_start + Sign(y_start, y_end),
                x_end, y_end, Sign(x_start, x_end), Sign(y_start, y_end))
    /\ Get(b, FormatSquare(x_end, y_end)) = None

is_path_clear(b, x_start, y_start, x_end, y_end) ==
    LET step_x == Sign(x_start, x_end)
        step_y == Sign(y_start, y_end)
    IN  PathWalk(b, x_start + step_x, y_start + step_y, x_end, y_end, step_x, step_y)

\* the pawn branch with the white pawn's direction (mutant)
pawn_attacks_upward(dx, dy) == dy = 1 /\ Abs(dx) = 1

\* the pawn branch: black pawns move downward
pawn_attacks(dx, dy) == dy = -1 /\ Abs(dx) = 1

attacks(b, piece, pos, target_x, target_y) ==
    LET xy == parse_position(pos)
    IN  IF xy = None THEN FALSE
        ELSE LET x == xy[1]
                 y == xy[2]
                 dx == target_x - x
                 dy == target_y - y
             IN  CASE piece = "queen" ->
                        IF dx = 0 \/ dy = 0 \/ Abs(dx) = Abs(dy)
                        THEN is_path_clear(b, x, y, target_x, target_y) ELSE FALSE
                   [] piece = "rook" ->
                        IF dx = 0 \/ dy = 0
                        THEN is_path_clear(b, x, y, target_x, target_y) ELSE FALSE
                   [] piece = "bishop" ->
                        IF Abs(dx) = Abs(dy)
                        THEN is_path_clear(b, x, y, target_x, target_y) ELSE FALSE
                   [] piece = "knight" ->
                        << Abs(dx), Abs(dy) >> \in { << 1, 2 >>, << 2, 1 >> }
                   [] piece = "pawn" -> pawn_attacks(dx, dy)
                   [] piece = "king" -> Abs(dx) <= 1 /\ Abs(dy) <= 1
                   [] OTHER -> FALSE

---------------------------------------------------------------------------
(* King safety classifier: the nested functions of determine_checkmate.    *)
(* board and black_pieces are mutable Python objects shared with the       *)
(* caller, so every function takes them in env and hands them back.        *)

\* the piece tuples (piece, pos) of a list
PieceOf(bp) == bp[1]
PosOf(bp) == bp[2]

\* list.remove(x): drops the first element equal to x
RemoveFirst(list, x) ==
    LET i == CHOOSE j \in 1..Len(list) :
                 list[j] = x /\ \A k \in 1..(j - 1) : list[k] # x
    IN  [ k \in 1..(Len(list) - 1) |-> IF k < i THEN list[k] ELSE list[k + 1] ]

\* is_in_check: some black piece attacks (x_w, y_w)
is_in_check(env, x_w, y_w) ==
    \E i \in 1..Len(env.black_pieces) :
        attacks(env.board, PieceOf(env.black_pieces[i]), PosOf(env.black_pieces[i]), x_w, y_w)

\* the capture simulation that works on black_pieces itself, not on a copy (mutant)
TempBlackPiecesAliased(bps, captured_piece_tuple) ==
    [ temp |-> RemoveFirst(bps, captured_piece_tuple),
      black_pieces |-> RemoveFirst(bps, captured_piece_tuple) ]

\* temp_black_pieces = black_pieces.copy(); temp_black_pieces.remove(captured_piece_tuple)
TempBlackPieces(bps, captured_piece_tuple) ==
    [ temp |-> RemoveFirst(bps, captured_piece_tuple), black_pieces |-> bps ]

\* a simulation that leaves the king on its origin square as well (mutant)
SimulateCaptureKeepOrigin(b, escape_pos, wpos) ==
    [ b EXCEPT ![escape_pos] = << "White", "K" >> ]

\* board[escape_pos] = 'White K'; board[white_piece_position] = None
SimulateCapture(b, escape_pos, wpos) ==
    [ [ b EXCEPT ![escape_pos] = << "White", "K" >> ] EXCEPT ![wpos] = None ]

\* a restore that forgets the captured piece (mutant)
RestoreBoardKingOnly(b, escape_pos, original_piece, wpos) ==
    [ b EXCEPT ![wpos] = << "White", "K" >> ]

\* board[escape_pos] = original_piece; board[white_piece_position] = 'White K'
RestoreBoard(b, escape_pos, original_piece, wpos) ==
    [ [ b EXCEPT ![escape_pos] = original_piece ] EXCEPT ![wpos] = << "White", "K" >> ]

\* the first black piece tuple standing on escape_pos, or None
CapturedPieceTuple(bps, escape_pos) ==
    IF \E i \in 1..Len(bps) : PosOf(bps[i]) = escape_pos
    THEN LET i == CHOOSE j \in 1..Len(bps) :
                      PosOf(bps[j]) = escape_pos
                      /\ \A k \in 1..(j - 1) : PosOf(bps[k]) # escape_pos
         IN  bps[i]
    ELSE None

\* the verdict on an empty neighbour square: the board is used as it stands
EmptySquareUnderAttack(env, new_x, new_y) ==
    \E i \in 1..Len(env.black_pieces) :
        attacks(env.board, PieceOf(env.black_pieces[i]), PosOf(env.black_pieces[i]),
                new_x, new_y)

\* in_check_after_capture: some remaining piece attacks the captured square
InCheckAfterCapture(simulated, temp_black_pieces, new_x, new_y) ==
    \E i \in 1..Len(temp_black_pieces) :
        attacks(simulated, PieceOf(temp_black_pieces[i]), PosOf(temp_black_pieces[i]),
                new_x, new_y)

\* lines 386-398: the test on the simulated board, the restore, the verdict;
\* st = [env, escape_positions], tmp = TempBlackPieces(..), original_piece read before
AfterSimulation(st, wpos, new_x, new_y, escape_pos, original_piece, tmp, simulated) ==
    [ env |-> [ board |-> RestoreBoard(simulated, escape_pos, original_piece, wpos),
                black_pieces |-> tmp.black_pieces ],
      escape_positions |->
          IF ~ InCheckAfterCapture(simulated, tmp.temp, new_x, new_y)
          THEN Append(st.escape_positions, escape_pos)
          ELSE st.escape_positions ]

\* lines 376-385: the capture of the black piece found on escape_pos
CaptureVerdict(st, wpos, new_x, new_y, escape_pos, captured_piece_tuple) ==
    IF captured_piece_tuple = None THEN st
    ELSE AfterSimulation(st, wpos, new_x, new_y, escape_pos, st.env.board[escape_pos],
                         TempBlackPieces(st.env.black_pieces, captured_piece_tuple),
                         SimulateCapture(st.env.board, escape_pos, wpos))

\* lines 360-398: the verdict on the on-board neighbour square escape_pos
NeighbourVerdict(st, wpos, new_x, new_y, escape_pos) ==
    IF st.env.board[escape_pos] # None /\ StartsWithWhite(st.env.board[escape_pos])
    THEN st
    ELSE IF st.env.board[escape_pos] = None THEN
        IF ~ EmptySquareUnderAttack(st.env, new_x, new_y)
        THEN [ st EXCEPT !.escape_positions = Append(@, escape_pos) ]
        ELSE st
    ELSE IF HasBlack(st.env.board[escape_pos]) THEN
        CaptureVerdict(st, wpos, new_x, new_y, escape_pos,
                       CapturedPieceTuple(st.env.black_pieces, escape_pos))
    ELSE st

\* the body of can_escape's double loop for one (dx, dy)
CanEscapeBody(st, wpos, x_w, y_w, dx, dy) ==
    IF dx = 0 /\ dy = 0 THEN st
    ELSE IF ~ (0 <= x_w + dx /\ x_w + dx < 8 /\ 0 <= y_w + dy /\ y_w + dy < 8) THEN st
    ELSE NeighbourVerdict(st, wpos, x_w + dx, y_w + dy, FormatSquare(x_w + dx, y_w + dy))

\* the offsets walked downward (mutant)
OffsetsDescending == << 1, 0, -1 >>

\* for dx in [-1, 0, 1]: for dy in [-1, 0, 1]
Offsets == << -1, 0, 1 >>

\* the loops of can_escape from iteration k (1..9) on
RECURSIVE CanEscapeFrom(_, _, _, _, _)
CanEscapeFrom(k, st, wpos, x_w, y_w) ==
    IF k > Len(Offsets) * Len(Offsets) THEN st
    ELSE CanEscapeFrom(k + 1,
             CanEscapeBody(st, wpos, x_w, y_w,
                           Offsets[((k - 1) \div Len(Offsets)) + 1],
                           Offsets[((k - 1) % Len(Offsets)) + 1]),
             wpos, x_w, y_w)

\* can_escape: [env, escape_positions]
can_escape(env, wpos, x_w, y_w) ==
    CanEscapeFrom(1, [ env |-> env, escape_positions |-> << >> ], wpos, x_w, y_w)

\* return len(escape_pos) == 0, with e what can_escape handed back
NoEscape(e) ==
    [ ret |-> Len(e.escape_positions) = 0, env |-> e.env,
      escapes |-> e.escape_positions, escape_calls |-> 1 ]

\* is_checkmate: [ret, env, escapes, escape_calls]
is_checkmate(env, wpos, x_w, y_w) ==
    IF ~ is_in_check(env, x_w, y_w)
    THEN [ ret |-> FALSE, env |-> env, escapes |-> << >>, escape_calls |-> 0 ]
    ELSE NoEscape(can_escape(env, wpos, x_w, y_w))

\* is_stalemate: [ret, env, escapes, escape_calls]
is_stalemate(env, wpos, x_w, y_w) ==
    IF is_in_check(env, x_w, y_w)
    THEN [ ret |-> FALSE, env |-> env, escapes |-> << >>, escape_calls |-> 0 ]
    ELSE NoEscape(can_escape(env, wpos, x_w, y_w))

\* what determine_checkmate hands back and leaves behind:
\*   status, escape_positions : the returned tuple
\*   escapes                  : the list the last can_escape call computed
\*   board, black_pieces      : the caller's objects after the call
\*   diag                     : the lines printed
\*   check_calls, escape_calls: how often is_in_check and can_escape ran
Outcome(status, escape_positions, escapes, env, printed, check_calls, escape_calls) ==
    [ status |-> status, escape_positions |-> escape_positions, escapes |-> escapes,
      board |-> env.board, black_pieces |-> env.black_pieces, diag |-> printed,
      check_calls |-> check_calls, escape_calls |-> escape_calls ]

\* line 429: return 'check', escape_pos
ReturnCheck(e, escape_calls) ==
    Outcome("check", e.escape_positions, e.escape_positions, e.env, << >>, 2, escape_calls)

\* the branches swapped (mutant)
ReturnStalemateOrSafeSwapped(sm, escape_calls) ==
    Outcome(IF sm.ret THEN "safe" ELSE "stalemate", << >>, sm.escapes, sm.env, << >>,
            3, escape_calls + sm.escape_calls)

\* lines 430-433: 'stalemate' or 'safe'
ReturnStalemateOrSafe(sm, escape_calls) ==
    Outcome(IF sm.ret THEN "stalemate" ELSE "safe", << >>, sm.escapes, sm.env, << >>,
            3, escape_calls + sm.escape_calls)

\* lines 425-433, with cm what is_checkmate handed back
Classify(cm, wpos, x_w, y_w) ==
    IF cm.ret
    THEN Outcome("checkmate", << >>, cm.escapes, cm.env, << >>, 1, cm.escape_calls)
    ELSE IF is_in_check(cm.env, x_w, y_w)
    THEN ReturnCheck(can_escape(cm.env, wpos, x_w, y_w), cm.escape_calls + 1)
    ELSE ReturnStalemateOrSafe(is_stalemate(cm.env, wpos, x_w, y_w), cm.escape_calls)

\* the early return handing back 'safe' (mutant)
ReturnErrorAsSafe(env) ==
    Outcome("safe", << >>, << >>, env, << << "Invalid white king position." >> >>, 0, 0)

\* line 254: return 'error', []
ReturnError(env) ==
    Outcome("error", << >>, << >>, env, << << "Invalid white king position." >> >>, 0, 0)

\* lines 249-254 and 425: xy is what parse_position gave for the king's square
AfterParse(env, white_piece_pos, xy) ==
    IF xy = None THEN ReturnError(env)
    ELSE Classify(is_checkmate(env, white_piece_pos, xy[1], xy[2]),
                  white_piece_pos, xy[1], xy[2])

determine_checkmate(b, white_piece_pos, bps) ==
    AfterParse([ board |-> b, black_pieces |-> bps ], white_piece_pos,
               parse_position(white_piece_pos))

---------------------------------------------------------------------------
(* Capture finder: determine_overtakes of the capture script.              *)

\* the white pawn's capture test
pawn_overtakes(x_w, y_w, x_b, y_b) == Abs(x_b - x_w) = 1 /\ y_b - y_w = 1

\* the white king's capture test with 'or' for 'and' (mutant)
king_overtakes_or(x_w, y_w, x_b, y_b) == Abs(x_b - x_w) <= 1 \/ Abs(y_b - y_w) <= 1

\* the white king's capture test
king_overtakes(x_w, y_w, x_b, y_b) == Abs(x_b - x_w) <= 1 /\ Abs(y_b - y_w) <= 1

\* the loop body for one black piece; acc = [overtakes, diag]
OvertakesBody(acc, white_type, x_w, y_w, bp) ==
    LET piece == PieceOf(bp)
        position == PosOf(bp)
        xy == parse_position(position)
    IN  IF xy = None
        THEN [ acc EXCEPT !.diag =
                   Append(@, << "Invalid position for black", piece, position >>) ]
        ELSE IF white_type = "king" THEN
            IF king_overtakes(x_w, y_w, xy[1], xy[2])
            THEN [ acc EXCEPT !.overtakes =
                       Append(@, << "Black", chess_pieces_name[piece], position >>) ]
            ELSE acc
        ELSE IF white_type = "pawn" THEN
            IF pawn_overtakes(x_w, y_w, xy[1], xy[2])
            THEN [ acc EXCEPT !.overtakes =
                       Append(@, << "Black", chess_pieces_name[piece], position >>) ]
            ELSE acc
        ELSE acc

\* the loop left at the first record that names no square (mutant)
RECURSIVE OvertakesFromStopAtInvalid(_, _, _, _, _, _)
OvertakesFromStopAtInvalid(i, acc, white_type, x_w, y_w, bps) ==
    IF i > Len(bps) THEN acc
    ELSE IF parse_position(PosOf(bps[i])) = None
    THEN OvertakesBody(acc, white_type, x_w, y_w, bps[i])
    ELSE OvertakesFromStopAtInvalid(i + 1, OvertakesBody(acc, white_type, x_w, y_w, bps[i]),
                                    white_type, x_w, y_w, bps)

\* for piece, position in black_pieces, from index i on
RECURSIVE OvertakesFrom(_, _, _, _, _, _)
OvertakesFrom(i, acc, white_type, x_w, y_w, bps) ==
    IF i > Len(bps) THEN acc
    ELSE OvertakesFrom(i + 1, OvertakesBody(acc, white_type, x_w, y_w, bps[i]),
                       white_type, x_w, y_w, bps)

\* determine_overtakes: [overtakes, diag]
determine_overtakes(white_type, white_piece_pos, bps) ==
    LET xy == parse_position(white_piece_pos)
    IN  IF xy = None
        THEN [ overtakes |-> << >>, diag |-> << << "Invalid white piece position." >> >> ]
        ELSE OvertakesFrom(1, [ overtakes |-> << >>, diag |-> << >> ],
                           white_type, xy[1], xy[2], bps)

---------------------------------------------------------------------------
(* Placement flow: get_piece_and_position, place_white_piece and           *)
(* place_black_pieces of both scripts.  A user input is the list of its    *)
(* words after strip().lower().split(): << "done" >>, << piece, square >>  *)
(* or a list of another length.                                            *)

\* max_total_pieces of the capture script
MaxTotalPieces == 16

\* max_piece_counts of the checkmate script
max_piece_counts ==
    [ p \in PieceKinds |->
        CASE p = "pawn" -> 8 [] p = "bishop" -> 2 [] p = "rook" -> 2
          [] p = "knight" -> 2 [] p = "queen" -> 1 [] p = "king" -> 1 ]

\* black_piece_counts as place_black_pieces creates it
ZeroCounts == [ p \in PieceKinds |-> 0 ]

\* the white pieces a script accepts
AllowedWhite(m) == IF m = "checkmate" THEN { "king" } ELSE { "king", "pawn" }

\* get_piece_and_position without the test for a taken square (mutant)
get_piece_and_position_any_square(inp, allowed_pieces, b, counts, counted, total) ==
    IF total >= 0 /\ total >= MaxTotalPieces THEN "done"
    ELSE IF inp = << "done" >> THEN "done"
    ELSE IF Len(inp) # 2 THEN "retry"
    ELSE IF inp[1] \notin allowed_pieces THEN "retry"
    ELSE IF inp[2] \notin DOMAIN b THEN "retry"
    ELSE IF counted /\ counts[inp[1]] >= max_piece_counts[inp[1]] THEN "retry"
    ELSE "accept"

\* one pass of get_piece_and_position's loop on input inp:
\* "done", "retry" (message printed, prompt again) or "accept".
\* counted: existing_piece_counts and max_counts are given;
\* total: total_pieces, or -1 for None
get_piece_and_position(inp, allowed_pieces, b, counts, counted, total) ==
    IF total >= 0 /\ total >= MaxTotalPieces THEN "done"
    ELSE IF inp = << "done" >> THEN "done"
    ELSE IF Len(inp) # 2 THEN "retry"
    ELSE IF inp[1] \notin allowed_pieces THEN "retry"
    ELSE IF inp[2] \notin DOMAIN b THEN "retry"
    ELSE IF b[inp[2]] # None THEN "retry"
    ELSE IF counted /\ counts[inp[1]] >= max_piece_counts[inp[1]] THEN "retry"
    ELSE "accept"

\* is_king_adjacent
is_king_adjacent(black_king_position, white_king_position) ==
    LET w == parse_position(white_king_position)
        k == parse_position(black_king_position)
    IN  IF w = None \/ k = None THEN FALSE
        ELSE Abs(w[1] - k[1]) <= 1 /\ Abs(w[2] - k[2]) <= 1

\* next((pos for pos, val in board.items() if val and val.startswith('White K')), None)
WhiteKingPos(b) ==
    IF \E k \in DOMAIN b : b[k] = << "White", "K" >>
    THEN CHOOSE k \in DOMAIN b : b[k] = << "White", "K" >>
    ELSE None

\* the proximity rule without the test of the neighbourhood (mutant)
BlackKingRefusedByCountOnly(m, inp, b, counts) ==
    /\ m = "checkmate"
    /\ inp[1] = "king"
    /\ counts["king"] >= 1

\* the black king proximity rule of the checkmate script: TRUE when the input is refused
BlackKingRefused(m, inp, b, counts) ==
    /\ m = "checkmate"
    /\ inp[1] = "king"
    /\ \/ counts["king"] >= 1
       \/ /\ WhiteKingPos(b) # None
          /\ is_king_adjacent(inp[2], WhiteKingPos(b))

\* what get_piece_and_position answers to a black-piece input in script m
BlackAnswer(m, inp, b, counts, bps) ==
    IF m = "checkmate"
    THEN get_piece_and_position(inp, PieceKinds, b, counts, TRUE, -1)
    ELSE get_piece_and_position(inp, PieceKinds, b, counts, FALSE, Len(bps))

\* square texts
Sq(col, row) == << col, row >>

\* the squares the user is driven to name for the white piece
KingSquares == { Sq("e", "4"), Sq("h", "1"), Sq("a", "1") }

\* the squares the user is driven to name for black pieces
BlackSquares ==
    { Sq("a", "4"), Sq("h", "8"), Sq("g", "8"), Sq("d", "5"), Sq("f", "4"), Sq("b", "3") }

\* texts that name no square
BadTexts == { << "i", "9" >>, << "e" >> }

WhiteInputs ==
    { << "done" >>, << "king" >>, << "queen", Sq("e", "4") >> }
    \cup { << "king", t >> : t \in KingSquares \cup BadTexts }
    \cup { << "pawn", t >> : t \in { Sq("e", "4") } \cup BadTexts }

\* black-piece inputs; wpos is the white piece's square, which the user may name again
BlackInputs(wpos) ==
    { << "done" >>, << "rook" >> }
    \cup { << p, t >> : p \in PieceKinds, t \in BlackSquares \cup { wpos } \cup BadTexts }

\* place_white_piece: an accepted input
PlaceWhitePiece ==
    /\ pc = "place_white"
    /\ \E inp \in WhiteInputs :
        /\ get_piece_and_position(inp, AllowedWhite(mode), board, ZeroCounts, FALSE, -1)
               = "accept"
        /\ board' = [ board EXCEPT ![inp[2]] = << "White", PieceWord(mode, inp[1]) >> ]
        /\ white_piece_type' = inp[1]
        /\ white_piece_position' = inp[2]
    /\ pc' = "place_black"
    /\ UNCHANGED << mode, black_pieces, black_piece_counts, result, diag,
                    board_before, black_before, probe >>

\* place_white_piece: 'done' or a refused input, the prompt comes again
RepromptWhite ==
    /\ pc = "place_white"
    /\ { inp \in WhiteInputs :
           get_piece_and_position(inp, AllowedWhite(mode), board, ZeroCounts, FALSE, -1)
               # "accept" } # { }
    /\ UNCHANGED vars

\* place_black_pieces: an accepted input
PlaceBlackPiece ==
    /\ pc = "place_black"
    /\ Len(black_pieces) < MaxBlack
    /\ \E inp \in BlackInputs(white_piece_position) :
        /\ BlackAnswer(mode, inp, board, black_piece_counts, black_pieces) = "accept"
        /\ ~ BlackKingRefused(mode, inp, board, black_piece_counts)
        /\ board' = [ board EXCEPT ![inp[2]] = << "Black", PieceWord(mode, inp[1]) >> ]
        /\ black_pieces' = Append(black_pieces, << inp[1], inp[2] >>)
        /\ black_piece_counts' =
               IF mode = "checkmate"
               THEN [ black_piece_counts EXCEPT ![inp[1]] = @ + 1 ]
               ELSE black_piece_counts
    /\ UNCHANGED << mode, pc, white_piece_type, white_piece_position, result, diag,
                    board_before, black_before, probe >>

\* place_black_pieces: a refused input, or 'done' before any black piece
BlackInputRefused(m, inp, b, counts, bps, answer) ==
    \/ answer = "retry"
    \/ answer = "done" /\ Len(bps) = 0
    \/ answer = "accept" /\ BlackKingRefused(m, inp, b, counts)

RepromptBlack ==
    /\ pc = "place_black"
    /\ { inp \in BlackInputs(white_piece_position) :
           BlackInputRefused(mode, inp, board, black_piece_counts, black_pieces,
               BlackAnswer(mode, inp, board, black_piece_counts, black_pieces)) } # { }
    /\ UNCHANGED vars

\* place_black_pieces: 'done' with at least one black piece
FinishPlacement ==
    /\ pc = "place_black"
    /\ { inp \in BlackInputs(white_piece_position) :
           BlackAnswer(mode, inp, board, black_piece_counts, black_pieces) = "done" } # { }
    /\ Len(black_pieces) > 0
    /\ pc' = "evaluate"
    /\ UNCHANGED << mode, board, white_piece_type, white_piece_position, black_pieces,
                    black_piece_counts, result, diag, board_before, black_before, probe >>

---------------------------------------------------------------------------
(* The evaluation calls of main().                                         *)

\* status, escape_positions = determine_checkmate(board, white_piece_position, black_pieces)
Returned(r) ==
    /\ result' = [ status |-> r.status, escape_positions |-> r.escape_positions,
                   escapes |-> r.escapes, check_calls |-> r.check_calls,
                   escape_calls |-> r.escape_calls ]
    /\ board' = r.board
    /\ black_pieces' = r.black_pieces
    /\ diag' = r.diag

CallDetermineCheckmate ==
    /\ pc = "evaluate"
    /\ mode = "checkmate"
    /\ Returned(determine_checkmate(board, white_piece_position, black_pieces))
    /\ board_before' = board
    /\ black_before' = black_pieces
    /\ pc' = "done"
    /\ UNCHANGED << mode, white_piece_type, white_piece_position, black_piece_counts, probe >>

\* overtakes = determine_overtakes(white_piece_type, white_piece_position, black_pieces)
Overtaken(r) ==
    /\ result' = [ overtakes |-> r.overtakes ]
    /\ diag' = r.diag

CallDetermineOvertakes ==
    /\ pc = "evaluate"
    /\ mode = "capture"
    /\ Overtaken(determine_overtakes(white_piece_type, white_piece_position, black_pieces))
    /\ board_before' = board
    /\ black_before' = black_pieces
    /\ pc' = "done"
    /\ UNCHANGED << mode, board, white_piece_type, white_piece_position, black_pieces,
                    black_piece_counts, probe >>

---------------------------------------------------------------------------
(* The two scripts from start to end.                                      *)

Init ==
    /\ mode \in { "checkmate", "capture" }
    /\ pc = "place_white"
    /\ board = create_chessboard
    /\ white_piece_type = ""
    /\ white_piece_position = None
    /\ black_pieces = << >>
    /\ black_piece_counts = ZeroCounts
    /\ result = None
    /\ diag = << >>
    /\ board_before = None
    /\ black_before = None
    /\ probe = None

Next ==
    \/ PlaceWhitePiece
    \/ RepromptWhite
    \/ PlaceBlackPiece
    \/ RepromptBlack
    \/ FinishPlacement
    \/ CallDetermineCheckmate
    \/ CallDetermineOvertakes

Spec == Init /\ [][Next]_vars

---------------------------------------------------------------------------
(* A long placement session of either script: the user fills the rows of a *)
(* fixed route kind after kind, so that every limit of place_black_pieces  *)
(* is met.  Inputs that name an occupied square or no square come at every *)
(* prompt.                                                                 *)

\* the order in which the user goes through the kinds
KindOrder == << "pawn", "bishop", "rook", "knight", "queen", "king" >>

KindRank(p) == CHOOSE i \in 1..Len(KindOrder) : KindOrder[i] = p

\* the squares the user names for a kind, one more than the checkmate script accepts
RouteRow(p) ==
    CASE p = "pawn" -> << Sq("a", "7"), Sq("b", "7"), Sq("c", "7"), Sq("d", "7"), Sq("e", "7"),
                          Sq("f", "7"), Sq("g", "7"), Sq("h", "7"), Sq("a", "6") >>
      [] p = "bishop" -> << Sq("b", "6"), Sq("c", "6"), Sq("d", "6") >>
      [] p = "rook" -> << Sq("e", "6"), Sq("f", "6"), Sq("g", "6") >>
      [] p = "knight" -> << Sq("b", "8"), Sq("c", "8"), Sq("d", "8") >>
      [] p = "queen" -> << Sq("e", "8"), Sq("f", "8") >>
      [] p = "king" -> << Sq("h", "8"), Sq("g", "8") >>

\* the first square of a row that is still free, if any
FirstFree(row, b) ==
    { row[i] : i \in { j \in 1..Len(row) :
                          b[row[j]] = None /\ \A k \in 1..(j - 1) : b[row[k]] # None } }

\* a square next to the white piece that the user tries for the black king
SquareNextTo(wpos) ==
    CASE wpos = Sq("e", "4") -> { Sq("e", "5") }
      [] wpos = Sq("h", "1") -> { Sq("g", "2") }
      [] wpos = Sq("a", "1") -> { Sq("b", "2") }
      [] OTHER -> { }

\* the squares already named: the white piece's and the black pieces'
NamedSquares(wpos, bps) == { wpos } \cup { PosOf(bps[i]) : i \in 1..Len(bps) }

\* the kinds the user has not yet gone past
KindsLeft(bps) ==
    { p \in PieceKinds : bps = << >> \/ KindRank(p) >= KindRank(PieceOf(bps[Len(bps)])) }

\* the inputs of the session at a prompt for a black piece
RouteInputs(b, wpos, bps) ==
    { << "done" >>, << "rook" >> }
    \cup UNION { { << p, t >> : t \in FirstFree(RouteRow(p), b) } : p \in KindsLeft(bps) }
    \cup { << "king", t >> : t \in SquareNextTo(wpos) }
    \cup { << p, t >> : p \in KindsLeft(bps), t \in NamedSquares(wpos, bps) \cup BadTexts }

\* lines 208-211 (capture script 183-184): the accepted piece is put on the board and
\* appended to the list, the checkmate script counts it
PlaceAccepted(inp) ==
    /\ board' = [ board EXCEPT ![inp[2]] = << "Black", PieceWord(mode, inp[1]) >> ]
    /\ black_pieces' = Append(black_pieces, << inp[1], inp[2] >>)
    /\ black_piece_counts' =
           IF mode = "checkmate"
           THEN [ black_piece_counts EXCEPT ![inp[1]] = @ + 1 ]
           ELSE black_piece_counts

\* place_black_pieces: an accepted input of the session
PlaceBlackPieceOnRoute ==
    /\ pc = "place_black"
    /\ \E inp \in RouteInputs(board, white_piece_position, black_pieces) :
        /\ BlackAnswer(mode, inp, board, black_piece_counts, black_pieces) = "accept"
        /\ ~ BlackKingRefused(mode, inp, board, black_piece_counts)
        /\ PlaceAccepted(inp)
    /\ UNCHANGED << mode, pc, white_piece_type, white_piece_position, result, diag,
                    board_before, black_before, probe >>

\* place_black_pieces: a refused input of the session, the prompt comes again
RepromptBlackOnRoute ==
    /\ pc = "place_black"
    /\ { inp \in RouteInputs(board, white_piece_position, black_pieces) :
           BlackInputRefused(mode, inp, board, black_piece_counts, black_pieces,
               BlackAnswer(mode, inp, board, black_piece_counts, black_pieces)) } # { }
    /\ UNCHANGED vars

\* place_black_pieces: 'done' with at least one black piece, or the capture script's
\* sixteenth piece placed
FinishPlacementOnRoute ==
    /\ pc = "place_black"
    /\ { inp \in RouteInputs(board, white_piece_position, black_pieces) :
           BlackAnswer(mode, inp, board, black_piece_counts, black_pieces) = "done" } # { }
    /\ Len(black_pieces) > 0
    /\ pc' = "evaluate"
    /\ UNCHANGED << mode, board, white_piece_type, white_piece_position, black_pieces,
                    black_piece_counts, result, diag, board_before, black_before, probe >>

NextPlacement ==
    \/ PlaceWhitePiece
    \/ RepromptWhite
    \/ PlaceBlackPieceOnRoute
    \/ RepromptBlackOnRoute
    \/ FinishPlacementOnRoute

SpecPlacement == Init /\ [][NextPlacement]_vars

---------------------------------------------------------------------------
(* Direct calls of the evaluation functions and of their helpers, as a     *)
(* test would make them: the arguments may name no square.                 *)

\* lists over S of length at most n
SeqsUpTo(S, n) == UNION { [ 1..k -> S ] : k \in 0..n }

\* the board a placement of these pieces leaves: pieces whose text names a square are
\* marked on it, the first of a square's pieces winning
MarkedBoard(m, white_type, wpos, bps) ==
    [ k \in BoardKeys |->
        IF k = wpos THEN << "White", PieceWord(m, white_type) >>
        ELSE IF \E i \in 1..Len(bps) : PosOf(bps[i]) = k
        THEN << "Black", PieceWord(m, PieceOf(bps[CHOOSE i \in 1..Len(bps) : PosOf(bps[i]) = k])) >>
        ELSE None ]

\* texts handed over as the white piece's square
DirectWhiteTexts ==
    { Sq("e", "4"), << "e", "9" >>, << "i", "4" >>, << "e" >>, << "e", "4", "4" >> }

\* texts handed over as black pieces' squares
DirectBlackTexts ==
    { Sq("d", "3"), Sq("d", "5"), Sq("e", "5"), Sq("f", "5"), << "i", "9" >> }

\* black-piece lists handed over: no two pieces on one square, none on the white one
DirectLists(wpos) ==
    { l \in SeqsUpTo(PieceKinds \X DirectBlackTexts, MaxDirect) :
        /\ \A i \in 1..Len(l) : PosOf(l[i]) # wpos
        /\ \A i, j \in 1..Len(l) :
               (i # j /\ PosOf(l[i]) = PosOf(l[j])) => PosOf(l[i]) \notin BoardKeys }

\* squares that may be occupied on a board handed to attacks
ProbeSquares == { Sq("a", "1"), Sq("a", "4"), Sq("a", "8"), Sq("d", "4") }

ProbeBoards ==
    { [ k \in BoardKeys |-> IF k \in occ THEN << "Black", "P" >> ELSE None ] :
        occ \in { o \in SUBSET ProbeSquares : Cardinality(o) <= MaxOccupied } }

\* characters of the texts handed to parse_position
ProbeChars == { "a", "e", "h", "i", "0", "1", "4", "8", "9" }

InitDirect ==
    /\ mode \in { "checkmate", "capture" }
    /\ pc = "evaluate"
    /\ white_piece_type \in AllowedWhite(mode)
    /\ white_piece_position \in DirectWhiteTexts
    /\ black_pieces \in DirectLists(white_piece_position)
    /\ board = MarkedBoard(mode, white_piece_type, white_piece_position, black_pieces)
    /\ black_piece_counts = ZeroCounts
    /\ result = None
    /\ diag = << >>
    /\ board_before = None
    /\ black_before = None
    /\ probe = None

\* direct calls of determine_checkmate on a board that holds a second white piece next to
\* the king: << king's square, the other white piece's square >>
DirectGuards ==
    { << Sq("e", "4"), Sq("f", "4") >>, << Sq("h", "5"), Sq("g", "4") >> }

InitDirectGuarded ==
    /\ mode = "checkmate"
    /\ pc = "evaluate"
    /\ white_piece_type = "king"
    /\ \E g \in DirectGuards :
        /\ white_piece_position = g[1]
        /\ black_pieces \in DirectLists(g[1])
        /\ board = [ MarkedBoard(mode, white_piece_type, g[1], black_pieces)
                        EXCEPT ![g[2]] = << "White", "P" >> ]
    /\ black_piece_counts = ZeroCounts
    /\ result = None
    /\ diag = << >>
    /\ board_before = None
    /\ black_before = None
    /\ probe = None

InitProbeIdle ==
    /\ mode = "probe"
    /\ pc = "probe"
    /\ board = create_chessboard
    /\ white_piece_type = ""
    /\ white_piece_position = None
    /\ black_pieces = << >>
    /\ black_piece_counts = ZeroCounts
    /\ result = None
    /\ diag = << >>
    /\ board_before = None
    /\ black_before = None

InitProbeAttacks ==
    /\ InitProbeIdle
    /\ \E b \in ProbeBoards, piece \in PieceKinds, pos \in BoardKeys \cup BadTexts,
          target_x \in 0..7, target_y \in 0..7 :
        probe = [ op |-> "attacks", b |-> b, piece |-> piece, pos |-> pos,
                  target_x |-> target_x, target_y |-> target_y, returned |-> FALSE ]

InitProbeParse ==
    /\ InitProbeIdle
    /\ \E position \in SeqsUpTo(ProbeChars, MaxTextLen) :
        probe = [ op |-> "parse_position", position |-> position, returned |-> FALSE ]

InitProbeFormat ==
    /\ InitProbeIdle
    /\ \E x \in 0..7, y \in 0..7 :
        probe = [ op |-> "format", x |-> x, y |-> y, returned |-> FALSE ]

\* attacks(piece, pos, target_x, target_y) on board b
CallAttacks ==
    /\ pc = "probe"
    /\ probe.op = "attacks"
    /\ probe' = [ op |-> "attacks", b |-> probe.b, piece |-> probe.piece, pos |-> probe.pos,
                  target_x |-> probe.target_x, target_y |-> probe.target_y,
                  returned |-> TRUE,
                  ret |-> attacks(probe.b, probe.piece, probe.pos,
                                  probe.target_x, probe.target_y) ]
    /\ pc' = "done"
    /\ UNCHANGED << mode, board, white_piece_type, white_piece_position, black_pieces,
                    black_piece_counts, result, diag, board_before, black_before >>

\* parse_position(position)
CallParsePosition ==
    /\ pc = "probe"
    /\ probe.op = "parse_position"
    /\ probe' = [ op |-> "parse_position", position |-> probe.position, returned |-> TRUE,
                  ret |-> parse_position(probe.position) ]
    /\ pc' = "done"
    /\ UNCHANGED << mode, board, white_piece_type, white_piece_position, black_pieces,
                    black_piece_counts, result, diag, board_before, black_before >>

\* parse_position(f"{chr(x + ord('a'))}{y + 1}")
CallFormatAndParse ==
    /\ pc = "probe"
    /\ probe.op = "format"
    /\ probe' = [ op |-> "format", x |-> probe.x, y |-> probe.y, returned |-> TRUE,
                  text |-> FormatSquare(probe.x, probe.y),
                  ret |-> parse_position(FormatSquare(probe.x, probe.y)) ]
    /\ pc' = "done"
    /\ UNCHANGED << mode, board, white_piece_type, white_piece_position, black_pieces,
                    black_piece_counts, result, diag, board_before, black_before >>

\* boards handed to a stepped run of attacks: the empty one and one with d4 occupied
WalkBoards ==
    { [ k \in BoardKeys |-> IF k \in occ THEN << "Black", "P" >> ELSE None ] :
        occ \in { { }, { Sq("d", "4") } } }

\* the kinds whose branch of attacks calls is_path_clear
SlidingKinds == { "queen", "rook", "bishop" }

InitProbeWalk ==
    /\ InitProbeIdle
    /\ \E b \in WalkBoards, piece \in SlidingKinds, pos \in BoardKeys,
          target_x \in 0..7, target_y \in 0..7 :
        probe = [ op |-> "walk", at |-> "call", b |-> b, piece |-> piece, pos |-> pos,
                  target_x |-> target_x, target_y |-> target_y,
                  x |-> 0, y |-> 0, step_x |-> 0, step_y |-> 0,
                  current_x |-> 0, current_y |-> 0, steps |-> 0, ret |-> FALSE ]

\* a gate that lets the rook through for every target (mutant)
sliding_gate_rook_ungated(piece, dx, dy) ==
    CASE piece = "queen" -> dx = 0 \/ dy = 0 \/ Abs(dx) = Abs(dy)
      [] piece = "rook" -> TRUE
      [] piece = "bishop" -> Abs(dx) = Abs(dy)
      [] OTHER -> FALSE

\* lines 276-284: the test a sliding kind passes before is_path_clear is called
sliding_gate(piece, dx, dy) ==
    CASE piece = "queen" -> dx = 0 \/ dy = 0 \/ Abs(dx) = Abs(dy)
      [] piece = "rook" -> dx = 0 \/ dy = 0
      [] piece = "bishop" -> Abs(dx) = Abs(dy)
      [] OTHER -> FALSE

\* lines 310-322: is_path_clear is entered, the loop is about to test its condition
EnterPathLoop(xy) ==
    probe' = [ probe EXCEPT !.at = "loop", !.x = xy[1], !.y = xy[2],
                            !.step_x = Sign(xy[1], probe.target_x),
                            !.step_y = Sign(xy[2], probe.target_y),
                            !.current_x = xy[1] + Sign(xy[1], probe.target_x),
                            !.current_y = xy[2] + Sign(xy[2], probe.target_y) ]

\* lines 269-284 of attacks for a sliding kind, up to the call of is_path_clear
EnterAttacks ==
    /\ pc = "probe"
    /\ probe.op = "walk"
    /\ probe.at = "call"
    /\ IF parse_position(probe.pos) = None
       THEN probe' = [ probe EXCEPT !.at = "returned", !.ret = FALSE ] /\ pc' = "done"
       ELSE IF sliding_gate(probe.piece,
                            probe.target_x - parse_position(probe.pos)[1],
                            probe.target_y - parse_position(probe.pos)[2])
       THEN EnterPathLoop(parse_position(probe.pos)) /\ pc' = pc
       ELSE probe' = [ probe EXCEPT !.at = "returned", !.x = parse_position(probe.pos)[1],
                                    !.y = parse_position(probe.pos)[2], !.ret = FALSE ]
            /\ pc' = "done"
    /\ UNCHANGED << mode, board, white_piece_type, white_piece_position, black_pieces,
                    black_piece_counts, result, diag, board_before, black_before >>

\* lines 324-329: one iteration of the while loop of is_path_clear
StepPathLoop ==
    /\ pc = "probe"
    /\ probe.op = "walk"
    /\ probe.at = "loop"
    /\ probe.current_x # probe.target_x \/ probe.current_y # probe.target_y
    /\ probe.steps < MaxWalk
    /\ IF Get(probe.b, FormatSquare(probe.current_x, probe.current_y)) # None
       THEN probe' = [ probe EXCEPT !.at = "returned", !.ret = FALSE ] /\ pc' = "done"
       ELSE probe' = [ probe EXCEPT !.current_x = @ + probe.step_x,
                                    !.current_y = @ + probe.step_y,
                                    !.steps = @ + 1 ]
            /\ pc' = pc
    /\ UNCHANGED << mode, board, white_piece_type, white_piece_position, black_pieces,
                    black_piece_counts, result, diag, board_before, black_before >>

\* lines 324 and 331: the loop condition fails, the path is clear
ExitPathLoop ==
    /\ pc = "probe"
    /\ probe.op = "walk"
    /\ probe.at = "loop"
    /\ ~ (probe.current_x # probe.target_x \/ probe.current_y # probe.target_y)
    /\ probe' = [ probe EXCEPT !.at = "returned", !.ret = TRUE ]
    /\ pc' = "done"
    /\ UNCHANGED << mode, board, white_piece_type, white_piece_position, black_pieces,
                    black_piece_counts, result, diag, board_before, black_before >>

InitEngine ==
    InitDirect \/ InitDirectGuarded \/ InitProbeAttacks \/ InitProbeParse \/ InitProbeFormat \/ InitProbeWalk

NextEngine ==
    \/ CallDetermineCheckmate
    \/ CallDetermineOvertakes
    \/ CallAttacks
    \/ CallParsePosition
    \/ CallFormatAndParse
    \/ EnterAttacks
    \/ StepPathLoop
    \/ ExitPathLoop

SpecEngine == InitEngine /\ [][NextEngine]_vars

---------------------------------------------------------------------------
(* Vocabulary of the properties, stated without the code's helpers.        *)

\* the text of square (x, y): column letter, then row digit
SquareText(x, y) == << ColLetters[x + 1], RowDigits[y + 1] >>

\* the (file, rank) pair of a square text
SquareXY(t) ==
    << CHOOSE x \in 0..7 : ColLetters[x + 1] = t[1],
       CHOOSE y \in 0..7 : RowDigits[y + 1] = t[2] >>

Max(a, b) == IF a >= b THEN a ELSE b

\* Chebyshev distance of two squares given as pairs
Chebyshev(p, q) == Max(Abs(p[1] - q[1]), Abs(p[2] - q[2]))

\* the list without its i-th element
RemoveAt(list, i) ==
    [ k \in 1..(Len(list) - 1) |-> IF k < i THEN list[k] ELSE list[k + 1] ]

\* the board with the king moved from square from to square to
KingRelocated(b, from, to) ==
    [ k \in DOMAIN b |->
        IF k = to THEN << "White", "K" >> ELSE IF k = from THEN None ELSE b[k] ]

\* the squares strictly between (x, y) and (tx, ty), for squares on one line
Between(x, y, tx, ty) ==
    { SquareText(x + k * Sign(x, tx), y + k * Sign(y, ty)) :
        k \in 1..(Max(Abs(tx - x), Abs(ty - y)) - 1) }

\* the alignment a sliding kind needs
Aligned(piece, dx, dy) ==
    CASE piece = "rook" -> dx = 0 \/ dy = 0
      [] piece = "bishop" -> Abs(dx) = Abs(dy)
      [] piece = "queen" -> dx = 0 \/ dy = 0 \/ Abs(dx) = Abs(dy)

\* determine_checkmate has returned / determine_overtakes has returned
CheckmateDone == pc = "done" /\ mode = "checkmate"
CaptureDone == pc = "done" /\ mode = "capture"

\* a direct call of a helper has returned
ProbeReturned(op) == mode = "probe" /\ probe.op = op /\ probe.returned

\* some black piece of the call stood next to the white king
AdjacentBlackPiece ==
    \E i \in 1..Len(black_before) :
        /\ PosOf(black_before[i]) \in BoardKeys
        /\ Chebyshev(SquareXY(PosOf(black_before[i])), SquareXY(white_piece_position)) = 1

---------------------------------------------------------------------------
(* C1: on a legally placed position, once determine_checkmate has returned *)
(* the board and the black-piece list equal their values before the call,  *)
(* whatever the status and however many captures were simulated.           *)

\* C1: after determine_checkmate the board and the black-piece list are as before the call
C1_BoardAndListRestored ==
    CheckmateDone => (board = board_before /\ black_pieces = black_before)

\* a call that ran can_escape twice with a black piece next to the king
C1_Witness ==
    /\ CheckmateDone
    /\ result.status = "check"
    /\ result.escape_calls = 2
    /\ AdjacentBlackPiece

---------------------------------------------------------------------------
(* C2: determine_checkmate returns 'checkmate' iff some black piece        *)
(* attacks the king's square and the escape list is empty, 'check' iff one *)
(* does and the list is not empty (and then returns that list),            *)
(* 'stalemate' iff none does and the list is empty, 'safe' otherwise; the  *)
(* returned list is empty for every status but 'check'.                    *)

C2_InCheck ==
    \E i \in 1..Len(black_before) :
        attacks(board_before, PieceOf(black_before[i]), PosOf(black_before[i]),
                SquareXY(white_piece_position)[1], SquareXY(white_piece_position)[2])

C2_EscapeList ==
    can_escape([ board |-> board_before, black_pieces |-> black_before ],
               white_piece_position,
               SquareXY(white_piece_position)[1],
               SquareXY(white_piece_position)[2]).escape_positions

C2_Classified(in_check, escapes) ==
    /\ result.status \in { "checkmate", "check", "stalemate", "safe" }
    /\ result.status = "checkmate" <=> (in_check /\ escapes = << >>)
    /\ result.status = "check" <=> (in_check /\ escapes # << >>)
    /\ result.status = "stalemate" <=> (~ in_check /\ escapes = << >>)
    /\ result.status = "safe" <=> (~ in_check /\ escapes # << >>)
    /\ result.status = "check" => result.escape_positions = escapes
    /\ result.status # "check" => result.escape_positions = << >>

\* C2: the returned status and list follow from in_check and the escape list
C2_Classification == CheckmateDone => C2_Classified(C2_InCheck, C2_EscapeList)

\* the position king h1, queen h8, rook g8 is classified checkmate
C2_Witness ==
    /\ CheckmateDone
    /\ white_piece_position = Sq("h", "1")
    /\ black_before = << << "queen", Sq("h", "8") >>, << "rook", Sq("g", "8") >> >>
    /\ result.status = "checkmate"

---------------------------------------------------------------------------
(* C3: every square of the escape list is attacked by no black piece left  *)
(* on the board once the king stands there and its origin square is empty; *)
(* for an empty neighbour square the verdict with the king on its origin   *)
(* equals the verdict with the king moved there.                           *)

\* some black piece other than one standing on sq attacks sq with the king moved there
AttackedAfterMove(b, bps, wpos, sq) ==
    \E i \in 1..Len(bps) :
        /\ PosOf(bps[i]) # sq
        /\ attacks(KingRelocated(b, wpos, sq), PieceOf(bps[i]), PosOf(bps[i]),
                   SquareXY(sq)[1], SquareXY(sq)[2])

\* some black piece attacks sq on the board as it stands
AttackedInPlace(b, bps, sq) ==
    \E i \in 1..Len(bps) :
        attacks(b, PieceOf(bps[i]), PosOf(bps[i]), SquareXY(sq)[1], SquareXY(sq)[2])

\* the empty squares next to the king
EmptyNeighbours(b, wpos) ==
    { sq \in BoardKeys : Chebyshev(SquareXY(sq), SquareXY(wpos)) = 1 /\ b[sq] = None }

\* C3: no escape square is attacked once the king stands on it; the in-place verdict
\* on an empty neighbour equals the verdict after the move
C3_EscapeSquaresAreSafe ==
    CheckmateDone =>
        /\ \A k \in 1..Len(result.escapes) :
               ~ AttackedAfterMove(board_before, black_before, white_piece_position,
                                   result.escapes[k])
        /\ \A sq \in EmptyNeighbours(board_before, white_piece_position) :
               AttackedInPlace(board_before, black_before, sq)
                   <=> AttackedAfterMove(board_before, black_before, white_piece_position, sq)

---------------------------------------------------------------------------
(* C4: attacks returns false when the target is the piece's own square,    *)
(* for every piece kind.                                                   *)

\* C4: attacks is false when the target is the piece's own square
C4_OwnSquareNotAttacked ==
    (/\ ProbeReturned("attacks")
     /\ probe.pos \in BoardKeys
     /\ SquareXY(probe.pos) = << probe.target_x, probe.target_y >>)
        => probe.ret = FALSE

---------------------------------------------------------------------------
(* C5: for a rook, bishop or queen and a target other than its own square, *)
(* attacks returns true iff the squares are aligned for the kind and every *)
(* square strictly between them is empty; what stands on the two end       *)
(* squares does not change the answer.                                     *)

\* board b with both end squares emptied / both occupied
EndsSet(b, pos, target, val) ==
    [ k \in DOMAIN b |-> IF k = pos \/ k = target THEN val ELSE b[k] ]

C5_SlidingVerdict(b, piece, x, y, tx, ty, ret) ==
    /\ ret <=> (/\ Aligned(piece, tx - x, ty - y)
                /\ \A sq \in Between(x, y, tx, ty) : b[sq] = None)
    /\ ret = attacks(EndsSet(b, SquareText(x, y), SquareText(tx, ty), None),
                     piece, SquareText(x, y), tx, ty)
    /\ ret = attacks(EndsSet(b, SquareText(x, y), SquareText(tx, ty), << "Black", "P" >>),
                     piece, SquareText(x, y), tx, ty)

\* C5: a sliding piece attacks iff aligned and nothing stands strictly between;
\* the end squares do not matter
C5_SlidingAttack ==
    (/\ ProbeReturned("attacks")
     /\ probe.piece \in { "rook", "bishop", "queen" }
     /\ probe.pos \in BoardKeys
     /\ SquareXY(probe.pos) # << probe.target_x, probe.target_y >>)
        => C5_SlidingVerdict(probe.b, probe.piece,
                             SquareXY(probe.pos)[1], SquareXY(probe.pos)[2],
                             probe.target_x, probe.target_y, probe.ret)

\* the rook on a1 does not attack a8 with a4 occupied
C5_Witness ==
    /\ ProbeReturned("attacks")
    /\ probe.piece = "rook"
    /\ probe.pos = Sq("a", "1")
    /\ << probe.target_x, probe.target_y >> = << 0, 7 >>
    /\ probe.b[Sq("a", "4")] # None
    /\ probe.ret = FALSE

---------------------------------------------------------------------------
(* C6: a black pawn attacks a target iff |dx| = 1 and dy = -1, a white     *)
(* pawn captures a black piece iff |dx| = 1 and dy = +1, both whatever the *)
(* board holds.                                                            *)

\* the descriptors determine_overtakes gives for the pieces of bps that satisfy Test
Descriptors(bps, Test(_)) ==
    LET sel == SelectSeq(bps, Test)
    IN  [ i \in 1..Len(sel) |->
            << "Black", chess_pieces_name[PieceOf(sel[i])], PosOf(sel[i]) >> ]

C6_WhitePawnReaches(bp) ==
    /\ PosOf(bp) \in BoardKeys
    /\ Abs(SquareXY(PosOf(bp))[1] - SquareXY(white_piece_position)[1]) = 1
    /\ SquareXY(PosOf(bp))[2] - SquareXY(white_piece_position)[2] = 1

\* C6: black pawn attacks iff |dx| = 1 and dy = -1; white pawn captures iff |dx| = 1 and
\* dy = +1; the board does not matter
C6_PawnDirections ==
    /\ (ProbeReturned("attacks") /\ probe.piece = "pawn" /\ probe.pos \in BoardKeys)
           => (probe.ret <=> (/\ Abs(probe.target_x - SquareXY(probe.pos)[1]) = 1
                              /\ probe.target_y - SquareXY(probe.pos)[2] = -1))
    /\ (CaptureDone /\ white_piece_type = "pawn" /\ white_piece_position \in BoardKeys)
           => result.overtakes = Descriptors(black_before, C6_WhitePawnReaches)

\* the black pawn on a2 attacks b1, on a board that is not empty
C6_Witness ==
    /\ ProbeReturned("attacks")
    /\ probe.piece = "pawn"
    /\ probe.pos = Sq("a", "2")
    /\ << probe.target_x, probe.target_y >> = << 1, 0 >>
    /\ probe.b # create_chessboard
    /\ probe.ret = TRUE

---------------------------------------------------------------------------
(* C7: on a legally placed position determine_overtakes returns exactly    *)
(* the black pieces the white piece reaches (king: Chebyshev distance 1,   *)
(* pawn: one step diagonally toward increasing rank), each once, in the    *)
(* order of the black-piece list, and changes neither board nor list.      *)

C7_Reaches(bp) ==
    IF white_piece_type = "king"
    THEN Chebyshev(SquareXY(PosOf(bp)), SquareXY(white_piece_position)) = 1
    ELSE /\ Abs(SquareXY(PosOf(bp))[1] - SquareXY(white_piece_position)[1]) = 1
         /\ SquareXY(PosOf(bp))[2] - SquareXY(white_piece_position)[2] = 1

---------------------------------------------------------------------------
(* C8: when the white king's square text names no square,                  *)
(* determine_checkmate returns the error status with an empty list, runs   *)
(* neither is_in_check nor can_escape, and leaves board and list as they   *)
(* were.                                                                   *)

C8_EarlyReturn(status) ==
    (CheckmateDone /\ white_piece_position \notin BoardKeys) =>
        /\ result.status = status
        /\ result.escape_positions = << >>
        /\ result.check_calls = 0
        /\ result.escape_calls = 0
        /\ board = board_before
        /\ black_pieces = black_before

\* C8 as written: the early return hands back the status 'invalid'
C8_ReturnsInvalid == C8_EarlyReturn("invalid")

\* C8 as amended: the early return hands back the status 'error'
C8_ReturnsError == C8_EarlyReturn("error")

\* a call with the king on 'e9' and two black pieces
C8_Witness ==
    /\ CheckmateDone
    /\ white_piece_position = << "e", "9" >>
    /\ Len(black_before) = 2
    /\ result.status = "error"

---------------------------------------------------------------------------
(* C9: a black piece record whose square text names no square is skipped:  *)
(* both evaluation functions return what they return on the same position  *)
(* without that record.  determine_overtakes prints a diagnostic for the   *)
(* record; determine_checkmate prints none.                                *)

\* the indices of the records that name no square
UnparsedRecords == { i \in 1..Len(black_before) : PosOf(black_before[i]) \notin BoardKeys }

\* the diagnostic determine_overtakes prints for a record
SkipDiagnostic(bp) == << "Invalid position for black", PieceOf(bp), PosOf(bp) >>

DiagnosticPrinted(bp) == \E k \in 1..Len(diag) : diag[k] = SkipDiagnostic(bp)

SameCheckmateResult(r) ==
    /\ result.status = r.status
    /\ result.escape_positions = r.escape_positions
    /\ result.escapes = r.escapes

\* the results are those of the position without record i
C9_SameWithout(i) ==
    /\ CheckmateDone =>
           SameCheckmateResult(determine_checkmate(board_before, white_piece_position,
                                                   RemoveAt(black_before, i)))
    /\ CaptureDone =>
           result.overtakes =
               determine_overtakes(white_piece_type, white_piece_position,
                                   RemoveAt(black_before, i)).overtakes

\* C9 as written: the unparsed record is skipped with a diagnostic by both functions
C9_SkippedWithDiagnostic ==
    (pc = "done" /\ mode \in { "checkmate", "capture" }
       /\ white_piece_position \in BoardKeys) =>
        \A i \in UnparsedRecords :
            C9_SameWithout(i) /\ DiagnosticPrinted(black_before[i])

\* C9 as amended: the unparsed record is skipped by both functions, with a diagnostic
\* from determine_overtakes and none from determine_checkmate
C9_Skipped ==
    (pc = "done" /\ mode \in { "checkmate", "capture" }) =>
        \A i \in UnparsedRecords :
            /\ C9_SameWithout(i)
            /\ (CaptureDone /\ white_piece_position \in BoardKeys)
                   => DiagnosticPrinted(black_before[i])
            /\ CheckmateDone => ~ DiagnosticPrinted(black_before[i])

\* a call of determine_overtakes with an unparsed record before a captured piece
C9_Witness ==
    /\ CaptureDone
    /\ white_piece_position = Sq("e", "4")
    /\ Len(black_before) = 2
    /\ PosOf(black_before[1]) = << "i", "9" >>
    /\ Len(result.overtakes) = 1

---------------------------------------------------------------------------
(* C10: for file and rank in 0..7, the text column letter + row digit      *)
(* parses back to the same pair and the 64 texts are pairwise distinct;    *)
(* parse_position returns (None, None), and does not raise, for a text of  *)
(* length other than 2 or with column or row out of range.                 *)

\* C10: format-then-parse is the identity on 0..7 x 0..7, the 64 texts differ, and
\* texts naming no square parse to (None, None)
C10_RoundTrip ==
    /\ ProbeReturned("format") =>
           /\ probe.text = SquareText(probe.x, probe.y)
           /\ probe.ret = << probe.x, probe.y >>
           /\ \A x \in 0..7, y \in 0..7 :
                  << x, y >> # << probe.x, probe.y >> => FormatSquare(x, y) # probe.text
    /\ (ProbeReturned("parse_position") /\ probe.position \notin BoardKeys)
           => probe.ret = None
    /\ (ProbeReturned("parse_position") /\ probe.position \in BoardKeys)
           => probe.ret = SquareXY(probe.position)

\* the text 'a9' is refused
C10_Witness ==
    /\ ProbeReturned("parse_position")
    /\ probe.position = << "a", "9" >>
    /\ probe.ret = None

---------------------------------------------------------------------------
(* C11: a neighbour square holding a black piece is an escape square iff,  *)
(* with that piece taken off, the king standing there and the king's       *)
(* origin emptied, no remaining black piece attacks the square; once       *)
(* can_escape is through with the square, board and list are as before.    *)

\* x is an element of the list
Listed(list, x) == \E k \in 1..Len(list) : list[k] = x

\* the squares of the board at Chebyshev distance 1 from square (x, y)
NeighbourSquares(x, y) ==
    { SquareText(nx, ny) : nx \in { x - 1, x, x + 1 } \cap (0..7),
                           ny \in { y - 1, y, y + 1 } \cap (0..7) }
        \ { SquareText(x, y) }

\* the neighbour squares of the king that hold a black piece
BlackNeighbours(b, wpos) ==
    { sq \in NeighbourSquares(SquareXY(wpos)[1], SquareXY(wpos)[2]) :
        b[sq] # None /\ HasBlack(b[sq]) }

\* board and list as can_escape leaves them once it is through with neighbour square sq,
\* having come to it with board and list as in orig
EnvAfterNeighbour(orig, wpos, sq) ==
    NeighbourVerdict([ env |-> orig, escape_positions |-> << >> ], wpos,
                     SquareXY(sq)[1], SquareXY(sq)[2], sq).env

\* C11: capture squares are escapes iff safe after the capture, and the board is put
\* back after every such square, whatever the verdict
C11_CaptureSimulation ==
    CheckmateDone =>
        \A sq \in BlackNeighbours(board_before, white_piece_position) :
            /\ Listed(result.escapes, sq)
                   <=> ~ AttackedAfterMove(board_before, black_before,
                                           white_piece_position, sq)
            /\ EnvAfterNeighbour([ board |-> board_before, black_pieces |-> black_before ],
                                 white_piece_position, sq)
                   = [ board |-> board_before, black_pieces |-> black_before ]

\* king e4 next to a black piece on f4 that a rook on a4 guards through e4, and next to
\* nothing else: the capture is simulated and refused
C11_Witness ==
    /\ CheckmateDone
    /\ white_piece_position = Sq("e", "4")
    /\ Len(black_before) = 2
    /\ Listed(black_before, << "rook", Sq("a", "4") >>)
    /\ \E i \in 1..2 : PosOf(black_before[i]) = Sq("f", "4")
    /\ ~ Listed(result.escapes, Sq("f", "4"))

---------------------------------------------------------------------------
(* C12: is_path_clear is only entered for two squares of one rank, file or *)
(* diagonal; its loop stays on the board, takes at most 7 steps and ends   *)
(* on the end square, so every call of attacks, and with it every call of  *)
(* determine_checkmate, terminates.                                        *)

\* a stepped run of attacks is inside is_path_clear's loop / has returned
InPathLoop == mode = "probe" /\ probe.op = "walk" /\ probe.at = "loop"
WalkReturned == mode = "probe" /\ probe.op = "walk" /\ probe.at = "returned"

\* the two squares lie on one rank, file or diagonal
OnCommonLine(x, y, tx, ty) == x = tx \/ y = ty \/ Abs(tx - x) = Abs(ty - y)

\* C12: inside the loop the squares are aligned, the current square is on the board, and
\* steps taken plus distance left to the end square is the distance at entry, at most 7;
\* the stepped run returns what attacks returns
C12_PathWalkTerminates ==
    /\ InPathLoop =>
           /\ OnCommonLine(probe.x, probe.y, probe.target_x, probe.target_y)
           /\ probe.current_x \in 0..7 /\ probe.current_y \in 0..7
           /\ probe.steps + 1
                  + Chebyshev(<< probe.current_x, probe.current_y >>,
                              << probe.target_x, probe.target_y >>)
                  = Max(1, Chebyshev(<< probe.x, probe.y >>,
                                     << probe.target_x, probe.target_y >>))
           /\ probe.steps + 1 <= 7
    /\ WalkReturned =>
           probe.ret = attacks(probe.b, probe.piece, probe.pos,
                               probe.target_x, probe.target_y)

\* the longest walk: a queen on a1 reaches h8 over the empty board in 6 iterations
C12_Witness ==
    /\ WalkReturned
    /\ probe.piece = "queen"
    /\ probe.pos = Sq("a", "1")
    /\ probe.target_x = 7 /\ probe.target_y = 7
    /\ probe.steps = 6
    /\ probe.ret

---------------------------------------------------------------------------
(* C13: the escape list holds only squares of the board next to the king,  *)
(* never the king's square, never a square holding a white piece, no       *)
(* square twice, by ascending file and, within a file, ascending rank.     *)

\* square s comes before square t in file-major, rank-minor order
FileMajorBefore(s, t) ==
    \/ SquareXY(s)[1] < SquareXY(t)[1]
    \/ SquareXY(s)[1] = SquareXY(t)[1] /\ SquareXY(s)[2] < SquareXY(t)[2]

\* a list of squares as the claim wants the escape list
WellFormedEscapeList(list, b, wpos) ==
    /\ \A i \in 1..Len(list) :
           /\ list[i] \in BoardKeys
           /\ Chebyshev(SquareXY(list[i]), SquareXY(wpos)) = 1
           /\ list[i] # wpos
           /\ ~ StartsWithWhite(b[list[i]])
    /\ \A i, j \in 1..Len(list) : i < j => FileMajorBefore(list[i], list[j])

\* C13: the list can_escape computes, and the list determine_checkmate returns, hold only
\* on-board neighbour squares free of white pieces, each once, in file-major order
C13_EscapeListWellFormed ==
    (CheckmateDone /\ white_piece_position \in BoardKeys) =>
        /\ WellFormedEscapeList(result.escapes, board_before, white_piece_position)
        /\ WellFormedEscapeList(result.escape_positions, board_before, white_piece_position)

\* king e4 alone with a white pawn on f4: the seven other neighbours are listed
C13_Witness ==
    /\ CheckmateDone
    /\ white_piece_position = Sq("e", "4")
    /\ board_before[Sq("f", "4")] = << "White", "P" >>
    /\ Len(result.escapes) = 7

---------------------------------------------------------------------------
(* C14: in the checkmate script's placement the black pieces number at     *)
(* most 8 pawns, 2 bishops, 2 rooks, 2 knights, 1 queen and 1 king, the    *)
(* counters equal the numbers of pieces of each kind in the list, and a    *)
(* black king never stands next to the white king.                         *)

\* how many pieces of kind p the list holds
CountOfKind(bps, p) == Cardinality({ i \in 1..Len(bps) : PieceOf(bps[i]) = p })

\* the limits as the claim states them
ClaimedLimit(p) ==
    CASE p = "pawn" -> 8 [] p \in { "bishop", "rook", "knight" } -> 2
      [] p \in { "queen", "king" } -> 1

\* C14: limits per kind, counters equal to the list's contents, black king not next to
\* the white king
C14_PlacementLimits ==
    (mode = "checkmate" /\ pc \in { "place_black", "evaluate" }) =>
        /\ \A p \in PieceKinds :
               /\ CountOfKind(black_pieces, p) <= ClaimedLimit(p)
               /\ black_piece_counts[p] = CountOfKind(black_pieces, p)
        /\ \A i \in 1..Len(black_pieces) :
               PieceOf(black_pieces[i]) = "king" =>
                   Chebyshev(SquareXY(PosOf(black_pieces[i])),
                             SquareXY(white_piece_position)) > 1

\* every limit is met: sixteen black pieces stand on the board, the king among them
C14_Witness ==
    /\ mode = "checkmate"
    /\ pc = "place_black"
    /\ Len(black_pieces) = 16
    /\ \A p \in PieceKinds : black_piece_counts[p] = ClaimedLimit(p)

---------------------------------------------------------------------------
(* C15: during and after placement, in both scripts, no two pieces share a *)
(* square: inputs naming an occupied square or no square are not accepted, *)
(* the occupied squares are the white piece's and those of the black-piece *)
(* list, the list repeats no square, placement ends with at least one      *)
(* black piece and, in the capture script, with at most 16.                *)

\* the squares of the board that hold a piece
OccupiedSquares(b) == { k \in DOMAIN b : b[k] # None }

\* an input that names an occupied square or no square of the board
NamesNoFreeSquare(inp, b) ==
    Len(inp) = 2 /\ (inp[2] \notin BoardKeys \/ b[inp[2]] # None)

\* C15: one piece per square, refused inputs, and the number of pieces at the end
C15_OnePiecePerSquare ==
    /\ pc = "place_white" => OccupiedSquares(board) = { }
    /\ pc \in { "place_black", "evaluate" } =>
           /\ OccupiedSquares(board)
                  = { white_piece_position }
                        \cup { PosOf(black_pieces[i]) : i \in 1..Len(black_pieces) }
           /\ white_piece_position \in BoardKeys
           /\ StartsWithWhite(board[white_piece_position])
           /\ \A i \in 1..Len(black_pieces) :
                  /\ PosOf(black_pieces[i]) \in BoardKeys
                  /\ PosOf(black_pieces[i]) # white_piece_position
                  /\ HasBlack(board[PosOf(black_pieces[i])])
           /\ \A i, j \in 1..Len(black_pieces) :
                  i # j => PosOf(black_pieces[i]) # PosOf(black_pieces[j])
           /\ mode = "capture" => Len(black_pieces) <= 16
    /\ pc = "place_white" =>
           \A inp \in WhiteInputs :
               NamesNoFreeSquare(inp, board) =>
                   get_piece_and_position(inp, AllowedWhite(mode), board, ZeroCounts,
                                          FALSE, -1) # "accept"
    /\ pc = "place_black" =>
           \A inp \in RouteInputs(board, white_piece_position, black_pieces) :
               NamesNoFreeSquare(inp, board) =>
                   BlackAnswer(mode, inp, board, black_piece_counts, black_pieces)
                       # "accept"
    /\ pc = "evaluate" => Len(black_pieces) >= 1

\* the capture script's placement has ended with sixteen black pieces
C15_Witness ==
    /\ mode = "capture"
    /\ pc = "evaluate"
    /\ Len(black_pieces) = 16

====
